---- MODULE Spec2Model ----
(***************************************************************************)
(* Towers of Hanoi solver of src/src/utils/hanoi_towers.py as a state      *)
(* machine.  One behaviour is one call of a public function of the module  *)
(* (solve_hanoi, initialize_towers, move_disk or hanoi_recursive) with     *)
(* arguments drawn from bounded sets.  The recursion of hanoi_recursive is *)
(* an explicit stack of frames, so that every individual move_disk call is *)
(* one step and every intermediate peg state is a state of the model.      *)
(***************************************************************************)
EXTENDS Integers, Sequences, FiniteSets, TLC

\* ------------------------------------------------------------------ bounds
\* largest disk count passed to solve_hanoi / initialize_towers
MaxDisks == 5
\* number of distinct disks in the peg states handed to direct
\* hanoi_recursive calls
MaxPegDisks == 3
\* disk sizes and stack height of the peg states handed to direct move_disk
\* calls (these states may repeat a size and may be out of order)
MaxSize == 3
MaxHeight == 2
\* smallest disk count tried is -MaxNegative
MaxNegative == 1
\* interpreter call-depth limit (sys.getrecursionlimit(), 1000 by default),
\* scaled down; it is what ends a recursion that never reaches n == 1
RecursionLimit == 12

\* ------------------------------------------------------------------ data
Pegs == {"A", "B", "C"}

EmptyTowers == [p \in Pegs |-> <<>>]

\* towers[source][-1]
Top(stack) == stack[Len(stack)]

\* list.pop() on a non-empty list
Pop(stack) == SubSeq(stack, 1, Len(stack) - 1)

\* `if n < 1: raise ValueError` of initialize_towers
initialize_towers_invalid_mut(n) == n < 0
initialize_towers_invalid(n) == n < 1

\* {'A': list(range(n, 0, -1)), 'B': [], 'C': []}
initialize_towers_mut(n) ==
    [p \in Pegs |-> IF p = "A" THEN [i \in 1..n |-> i] ELSE <<>>]
initialize_towers(n) ==
    [p \in Pegs |-> IF p = "A" THEN [i \in 1..n |-> n + 1 - i] ELSE <<>>]

\* `if n < 1: raise ValueError` of solve_hanoi
solve_hanoi_invalid(n) == n < 1

\* `if not towers[source]: raise ValueError`
SourceEmpty(t, source) == Len(t[source]) = 0

\* `if towers[destination] and towers[destination][-1] < disk: raise`
SizeViolation_mut(t, source, destination) ==
    /\ Len(t[destination]) # 0
    /\ Top(t[destination]) > Top(t[source])
SizeViolation(t, source, destination) ==
    /\ Len(t[destination]) # 0
    /\ Top(t[destination]) < Top(t[source])

\* move_disk raises ValueError (either of its two checks)
move_disk_raises(t, source, destination) ==
    \/ SourceEmpty(t, source)
    \/ SizeViolation(t, source, destination)

\* towers[source].pop(); towers[destination].append(disk)
\* (two statements in sequence: the append sees the popped list)
move_disk_mut(t, source, destination) ==
    LET disk == Top(t[source])
    IN  [t EXCEPT ![destination] = Append(t[destination], disk)]
move_disk(t, source, destination) ==
    LET disk   == Top(t[source])
        popped == [t EXCEPT ![source] = Pop(t[source])]
    IN  [popped EXCEPT ![destination] = Append(popped[destination], disk)]

\* one activation of hanoi_recursive and the place it has reached
Frame(n, source, destination, auxiliary, pc) ==
    [n |-> n, source |-> source, destination |-> destination,
     auxiliary |-> auxiliary, pc |-> pc]

\* `if n == 1:`
BaseCase_mut(n) == n <= 2
BaseCase(n) == n = 1

\* hanoi_recursive(n - 1, source, auxiliary, destination, towers, show_steps)
FirstCall_mut(f) ==
    Frame(f.n - 1, f.source, f.destination, f.auxiliary, "enter")
FirstCall(f) ==
    Frame(f.n - 1, f.source, f.auxiliary, f.destination, "enter")

\* hanoi_recursive(n - 1, auxiliary, destination, source, towers, show_steps)
SecondCall_mut(f) ==
    Frame(f.n - 1, f.source, f.destination, f.auxiliary, "enter")
SecondCall(f) ==
    Frame(f.n - 1, f.auxiliary, f.destination, f.source, "enter")

\* ---------------------------------------------------------------- output
\* one printed line; unused fields hold "-", 0 or EmptyTowers
Line(kind, source, destination, disk, t) ==
    [kind |-> kind, source |-> source, destination |-> destination,
     disk |-> disk, towers |-> t]

\* print_tower_state(towers, message): the message line, then the dict
print_tower_state(t, message) ==
    << Line(message, "-", "-", 0, EmptyTowers),
       Line("towers", "-", "-", 0, t) >>

\* print(f"Move disk from {source} to {destination}: {disk}")
\* print_tower_state(towers, "Intermediate state:")
StepTrace_mut(show_steps, source, destination, disk, t) ==
    << Line("Move disk", source, destination, disk, EmptyTowers) >>
        \o print_tower_state(t, "Intermediate state:")
StepTrace(show_steps, source, destination, disk, t) ==
    IF show_steps
    THEN << Line("Move disk", source, destination, disk, EmptyTowers) >>
             \o print_tower_state(t, "Intermediate state:")
    ELSE << >>

\* ---------------------------------------------------------------- inputs
Counts == (0 - MaxNegative)..MaxDisks
PegCounts == (0 - MaxNegative)..MaxPegDisks

RECURSIVE SeqsUpTo(_, _)
SeqsUpTo(S, k) ==
    IF k = 0 THEN {<<>>}
    ELSE LET shorter == SeqsUpTo(S, k - 1)
         IN  shorter \cup {Append(q, x) : q \in shorter, x \in S}

Range(q) == {q[i] : i \in 1..Len(q)}
NoRepeat(q) == Cardinality(Range(q)) = Len(q)

\* peg states for direct move_disk calls: any short lists of sizes
MoveStates == [Pegs -> SeqsUpTo(1..MaxSize, MaxHeight)]

\* peg states for direct hanoi_recursive calls: every way of placing some
\* of the disks 1..MaxPegDisks on the three pegs, in any order
DiskStacks == {q \in SeqsUpTo(1..MaxPegDisks, MaxPegDisks) : NoRepeat(q)}
HanoiStates ==
    {t \in [Pegs -> DiskStacks] :
        \A p, q \in Pegs : p # q => Range(t[p]) \cap Range(t[q]) = {}}

Call(fn, n, source, destination, auxiliary, t, show_steps) ==
    [fn |-> fn, n |-> n, source |-> source, destination |-> destination,
     auxiliary |-> auxiliary, towers |-> t, show_steps |-> show_steps]

\* ==========================================================================
\* Koch snowflake generator of src/src/utils/koch_snowflake.py.  One
\* behaviour of SpecKoch is one call of koch_curve (on a turtle the caller
\* hands in) or of draw_koch_snowflake.  Lengths are exact fractions; the
\* turtle is its heading, its position and the log of the calls made on it.
\* ==========================================================================

\* ------------------------------------------------------------ Koch bounds
\* largest recursion level and largest length tried
MaxLevel == 3
MaxLength == 3

\* `for _ in range(3):`
Sides == 3

\* a length num/den
Rat(num, den) == [num |-> num, den |-> den]

RECURSIVE Gcd(_, _)
Gcd(a, b) == IF b = 0 THEN a ELSE Gcd(b, a % b)

Abs(x) == IF x < 0 THEN 0 - x ELSE x

\* the same fraction in lowest terms
Reduce(r) ==
    LET g == Gcd(Abs(r.num), r.den)
    IN  Rat(r.num \div g, r.den \div g)

RatAdd(p, q) == Reduce(Rat(p.num * q.den + q.num * p.den, p.den * q.den))
RatScale(k, p) == Rat(k * p.num, p.den)
RatZero == Rat(0, 1)

\* `length /= 3.0`
DivideBy3_mut(l) == Rat(l.num, l.den * 2)
DivideBy3(l) == Rat(l.num, l.den * 3)

\* one call on the screen or the turtle, with its (up to two) arguments
TurtleCall(op, x, y) == [op |-> op, x |-> x, y |-> y]
Forward(l) == TurtleCall("forward", l, RatZero)
Left(angle) == TurtleCall("left", Rat(angle, 1), RatZero)
Right(angle) == TurtleCall("right", Rat(angle, 1), RatZero)

\* the turn made at each place of the recursive branch:
\* t.left(60), t.right(120), t.left(60)
KochTurn_mut(pc) ==
    CASE pc = "left1" -> Left(60)
      [] pc = "right" -> Right(60)
      [] pc = "left2" -> Left(60)
KochTurn(pc) ==
    CASE pc = "left1" -> Left(60)
      [] pc = "right" -> Right(120)
      [] pc = "left2" -> Left(60)

\* `t.right(120)` after each side of the snowflake
SideTurn_mut == Right(60)
SideTurn == Right(120)

\* the place after each turn
KochAfter(pc) ==
    CASE pc = "left1" -> "right"
      [] pc = "right" -> "left2"
      [] pc = "left2" -> "return"

\* the turtle's heading after a turn: left is counter-clockwise
Turned(h, c) ==
    IF c.op = "left" THEN (h + c.x.num) % 360
    ELSE (h + 360 - c.x.num) % 360

\* headings are multiples of 60 degrees, so positions are sums of multiples
\* of the unit vectors at 0 and at 60 degrees: a step at heading h, as
\* <<multiple of the first, multiple of the second>>
UnitStep(h) ==
    CASE h = 0   -> <<1, 0>>
      [] h = 60  -> <<0, 1>>
      [] h = 120 -> <<-1, 1>>
      [] h = 180 -> <<-1, 0>>
      [] h = 240 -> <<0, -1>>
      [] h = 300 -> <<1, -1>>

\* the position: the point of the last goto (x, y) and the displacement from
\* it (a, b) in those two unit vectors
Position(x, y, a, b) == [x |-> x, y |-> y, a |-> a, b |-> b]

\* t.forward(length) at heading h
Advance(pos, h, l) ==
    [pos EXCEPT !.a = RatAdd(pos.a, RatScale(UnitStep(h)[1], l)),
                !.b = RatAdd(pos.b, RatScale(UnitStep(h)[2], l))]

\* one activation of koch_curve: its (possibly divided) length, its level
\* and the place it has reached
KFrame(length, level, pc) == [length |-> length, level |-> level, pc |-> pc]

\* `if level < 0: raise` / `if length <= 0: raise` of draw_koch_snowflake
draw_invalid_mut(length, level) == level < 0 \/ length.num < 0
draw_invalid(length, level) == level < 0 \/ length.num <= 0

\* window = turtle.Screen() ... t.pendown()
DrawSetup(length, level) ==
    << TurtleCall("Screen", RatZero, RatZero),
       TurtleCall("bgcolor", RatZero, RatZero),
       TurtleCall("title", Rat(level, 1), RatZero),
       TurtleCall("Turtle", RatZero, RatZero),
       TurtleCall("speed", RatZero, RatZero),
       TurtleCall("color", RatZero, RatZero),
       TurtleCall("penup", RatZero, RatZero),
       TurtleCall("goto", Rat(0 - length.num, 2 * length.den),
                          Rat(length.num, 3 * length.den)),
       TurtleCall("pendown", RatZero, RatZero) >>

\* t.hideturtle(); window.mainloop()
DrawFinishCalls ==
    << TurtleCall("hideturtle", RatZero, RatZero),
       TurtleCall("mainloop", RatZero, RatZero) >>

KochLengths == {Rat(n, 1) : n \in (0 - MaxNegative)..MaxLength}
KochLevels == (0 - MaxNegative)..MaxLevel
Headings == {0, 60, 120, 180, 240, 300}

KCall(fn, length, level, heading) ==
    [fn |-> fn, length |-> length, level |-> level, heading |-> heading]

\* ==========================================================================
\* Extension-bucketed copier of src/src/utils/file_copier.py.  One behaviour
\* of SpecCopier is up to MaxRuns calls in a row of
\* process_directory_recursive(source, dest) on one source tree and one
\* destination, dest lying outside source.  File names are sequences of
\* characters, so that suffix, stem, lower-casing and the numbered names are
\* computed as pathlib and the code compute them.  Every filesystem
\* operation (listing a directory, creating a bucket, copying) may fail.
\* ==========================================================================

\* ---------------------------------------------------------- copier bounds
\* most files in the source tree, and most runs in a row
MaxFiles == 2
MaxRuns == 2

\* str.lower() on the characters used
Lower_mut(ch) == ch
Lower(ch) ==
    CASE ch = "T" -> "t"
      [] ch = "A" -> "a"
      [] OTHER -> ch

LowerAll(q) == [i \in 1..Len(q) |-> Lower(q[i])]

\* name.rfind('.'), counted from 1; 0 when there is no dot
RECURSIVE RFindDot(_, _)
RFindDot(name, i) ==
    IF i = 0 THEN 0
    ELSE IF name[i] = "." THEN i
    ELSE RFindDot(name, i - 1)

\* pathlib's PurePath.suffix: from the last dot on, unless that dot is the
\* first or the last character
Suffix(name) ==
    LET i == RFindDot(name, Len(name))
    IN  IF 1 < i /\ i < Len(name) THEN SubSeq(name, i, Len(name)) ELSE <<>>

\* pathlib's PurePath.stem: the name without its suffix
Stem(name) == SubSeq(name, 1, Len(name) - Len(Suffix(name)))

\* str.lstrip('.')
RECURSIVE LStripDots(_)
LStripDots(q) ==
    IF q # <<>> /\ q[1] = "." THEN LStripDots(Tail(q)) ELSE q

\* the bucket for names without extension
NoExtension == << "no_extension" >>

\* get_file_extension(file_path)
get_file_extension(name) ==
    LET extension == LStripDots(Suffix(name))
    IN  IF extension # <<>> THEN LowerAll(extension) ELSE NoExtension

\* str(counter)
DecimalDigits == << "0", "1", "2", "3", "4", "5", "6", "7", "8", "9" >>
RECURSIVE Str(_)
Str(k) ==
    IF k < 10 THEN << DecimalDigits[k + 1] >>
    ELSE Str(k \div 10) \o << DecimalDigits[(k % 10) + 1] >>

\* f"{original_stem}_{counter}{file_path.suffix}"
NewName(name, counter) ==
    Stem(name) \o << "_" >> \o Str(counter) \o Suffix(name)

\* a file of the destination: its bucket directory, its name, its content
DestFile(bucket, name, content) ==
    [bucket |-> bucket, name |-> name, content |-> content]

\* destination_file.exists()
Exists_mut(files, bucket, name) ==
    \E g \in files : g.bucket = name /\ g.name = bucket
Exists(files, bucket, name) ==
    \E g \in files : g.bucket = bucket /\ g.name = name

\* the `while destination_file.exists():` loop from counter on: the first
\* numbered name that is not in the bucket
RECURSIVE FirstFree(_, _, _, _)
FirstFree(files, bucket, name, counter) ==
    IF Exists(files, bucket, NewName(name, counter))
    THEN FirstFree(files, bucket, name, counter + 1)
    ELSE NewName(name, counter)

\* destination_file after lines 74-82
DestinationName_mut(files, bucket, name) == name
DestinationName(files, bucket, name) ==
    IF Exists(files, bucket, name)
    THEN FirstFree(files, bucket, name, 1)
    ELSE name

\* shutil.copy2(file_path, destination_file): writes the file, replacing
\* whatever has that path
Copy2(files, bucket, name, content) ==
    {g \in files : ~(g.bucket = bucket /\ g.name = name)}
        \cup {DestFile(bucket, name, content)}

\* the source tree: three nested directories, source, source/d, source/d/e
SourceDirs == { <<>>, <<"d">>, <<"d", "e">> }
SubDirs(dir) ==
    {q \in SourceDirs : Len(q) = Len(dir) + 1 /\ SubSeq(q, 1, Len(dir)) = dir}

\* the file names tried: a.t, a.b.T, .g, R
SourceNames ==
    { <<"a", ".", "t">>,
      <<"a", ".", "b", ".", "T">>,
      <<".", "g">>,
      <<"R">> }

SourceFile(dir, name) == [dir |-> dir, name |-> name]

\* a file's content stands for itself: the content of dir/name
Content(dir, name) == << dir, name >>
OldContent == << <<"old">>, <<>> >>
PartialContent == << <<"partial">>, <<>> >>

AllSourceFiles == {SourceFile(d, n) : d \in SourceDirs, n \in SourceNames}

RECURSIVE SubsetsUpTo(_, _)
SubsetsUpTo(S, k) ==
    IF k = 0 THEN { {} }
    ELSE LET smaller == SubsetsUpTo(S, k - 1)
         IN  smaller \cup {T \cup {x} : T \in smaller, x \in S}

SourceTrees == SubsetsUpTo(AllSourceFiles, MaxFiles)

\* the destination: its bucket directories and the files in them
Dest(dirs, files) == [dirs |-> dirs, files |-> files]

\* what the destination holds before the first run: nothing; t/a.t and
\* t/a_1.t; or t/a.t and t/a_2.t
DestStates ==
    { Dest({}, {}),
      Dest({ <<"t">> },
           { DestFile(<<"t">>, <<"a", ".", "t">>, OldContent),
             DestFile(<<"t">>, <<"a", "_", "1", ".", "t">>, OldContent) }),
      Dest({ <<"t">> },
           { DestFile(<<"t">>, <<"a", ".", "t">>, OldContent),
             DestFile(<<"t">>, <<"a", "_", "2", ".", "t">>, OldContent) }) }

\* what iterdir() yields for a directory: its files and its subdirectories
Item(kind, dir, name) == [kind |-> kind, dir |-> dir, name |-> name]
Items(tree, dir) ==
    {Item("file", f.dir, f.name) : f \in {g \in tree : g.dir = dir}}
        \cup {Item("dir", q, <<>>) : q \in SubDirs(dir)}

\* one activation of process_directory_recursive: its directory, the place
\* it has reached, the items iterdir() has still to yield
CFrame(dir, pc, todo) == [dir |-> dir, pc |-> pc, todo |-> todo]

\* a line on the error stream
ErrLine(kind, dir, name) == [kind |-> kind, dir |-> dir, name |-> name]

\* `except OSError: print(f"Error accessing directory {source_dir}: ...");
\* raise` in every active frame, innermost first
RECURSIVE AccessErrors(_)
AccessErrors(frames) ==
    IF frames = <<>> THEN <<>>
    ELSE << ErrLine("Error accessing directory", frames[Len(frames)].dir,
                    <<>>) >>
         \o AccessErrors(SubSeq(frames, 1, Len(frames) - 1))

\* f"Copied: {file_path} -> {destination_file}"
CopiedLine(dir, name, bucket, destname) ==
    [dir |-> dir, name |-> name, bucket |-> bucket, destname |-> destname]

CCall(tree, dest0) == [tree |-> tree, dest |-> dest0]

\* ==========================================================================
\* The command-line entry points: main() of hanoi_towers.py and of
\* koch_snowflake.py.  One behaviour of SpecMain is one run of one of the two
\* programs on one argument text, given on the command line or typed at the
\* prompt, up to the process exit.
\* ==========================================================================

\* largest in-range value tried below the warning thresholds
MaxArg == 3

\* `if n > 10:` of hanoi_towers.main, `if level > 6:` of koch_snowflake.main
HanoiWarnAbove == 10
KochWarnAbove == 6

\* `length: float = 300` of draw_koch_snowflake
DefaultLength == 300

IsDigit(c) == \E i \in 1..10 : DecimalDigits[i] = c
DigitValue(c) == (CHOOSE i \in 1..10 : DecimalDigits[i] = c) - 1

\* str.strip() as int() applies it: blanks at both ends are dropped
RECURSIVE LStripBlank(_)
LStripBlank(s) ==
    IF s # <<>> /\ Head(s) = " " THEN LStripBlank(Tail(s)) ELSE s
RECURSIVE RStripBlank(_)
RStripBlank(s) ==
    IF s # <<>> /\ s[Len(s)] = " "
    THEN RStripBlank(SubSeq(s, 1, Len(s) - 1))
    ELSE s
StripBlank(s) == RStripBlank(LStripBlank(s))

\* the part of a stripped literal after its optional sign
Unsigned(s) == IF s # <<>> /\ Head(s) \in {"+", "-"} THEN Tail(s) ELSE s

\* digits, with single underscores allowed between two digits
IsDigitString(s) ==
    /\ s # <<>>
    /\ \A i \in 1..Len(s) : IsDigit(s[i]) \/ s[i] = "_"
    /\ IsDigit(s[1])
    /\ IsDigit(s[Len(s)])
    /\ \A i \in 1..(Len(s) - 1) : ~(s[i] = "_" /\ s[i + 1] = "_")

RECURSIVE DigitsValue(_)
DigitsValue(s) ==
    IF s = <<>> THEN 0
    ELSE IF s[Len(s)] = "_" THEN DigitsValue(SubSeq(s, 1, Len(s) - 1))
    ELSE 10 * DigitsValue(SubSeq(s, 1, Len(s) - 1)) + DigitValue(s[Len(s)])

\* int(text): the text is an integer literal, or ValueError
IntValid(text) == IsDigitString(Unsigned(StripBlank(text)))
IntValue(text) ==
    LET s == StripBlank(text)
        v == DigitsValue(Unsigned(s))
    IN  IF Head(s) = "-" THEN 0 - v ELSE v

\* the decimal text of an integer
IntText(v) == IF v < 0 THEN << "-" >> \o Str(0 - v) ELSE Str(v)

\* texts that int() rejects
NonIntegerTexts ==
    { << >>, << "x" >>, << "2", ".", "5" >>, << "-" >>, << "1", "_" >>,
      << "1", " ", "1" >> }

\* other spellings of an integer that int() accepts
SpelledIntegers ==
    { << " ", "2", " " >>, << "+", "2" >>, << "0", "2" >>, << "-", "0" >>,
      << "0", "_", "2" >> }

Larger(a, b) == IF a > b THEN a ELSE b

\* disk counts tried: out of range, in range, above the warning threshold
\* with a depth the interpreter allows, and beyond the depth it allows
HanoiArgValues ==
    ((0 - MaxNegative)..MaxArg)
        \cup {HanoiWarnAbove + 1, Larger(HanoiWarnAbove, RecursionLimit) + 1}

\* levels tried: out of range, in range, and above the warning threshold
\* (every such level here is beyond the depth the interpreter allows)
KochArgValues ==
    ((0 - MaxNegative)..MaxArg)
        \cup {Larger(KochWarnAbove, RecursionLimit) + 1}

ArgTexts(prog) ==
    NonIntegerTexts \cup SpelledIntegers
        \cup {IntText(v) : v \in IF prog = "hanoi_towers" THEN HanoiArgValues
                                  ELSE KochArgValues}

\* end of input at the prompt: input() raises EOFError
EndOfInput == << "EOF" >>

\* one run: the program, where its argument comes from, and the text
MainArgs(prog, from, text) == [prog |-> prog, from |-> from, text |-> text]

\* a line main() prints, on stdout or stderr
MainLine(stream, kind, value) ==
    [stream |-> stream, kind |-> kind, value |-> value]

\* exit status of a process that is still running
NoExit == 0 - 1

\* the `except ValueError` handler: message, usage, sys.exit(1)
ValueErrorLines ==
    << MainLine("stderr", "Error", 0), MainLine("stdout", "Usage", 0) >>

\* the `except Exception` handler: message, sys.exit(1)
UnexpectedErrorLines == << MainLine("stderr", "Unexpected error", 0) >>

\* the lines of the handler that catches exception exc
HandlerLines(exc) ==
    IF exc = "ValueError" THEN ValueErrorLines ELSE UnexpectedErrorLines

\* 2**n
RECURSIVE TwoToThe(_)
TwoToThe(n) == IF n = 0 THEN 1 ELSE 2 * TwoToThe(n - 1)

\* `if n > 10:` and its two prints
HanoiWarns_mut(n) == n >= HanoiWarnAbove + 2
HanoiWarns(n) == n > HanoiWarnAbove
HanoiWarningLines(n) ==
    IF HanoiWarns(n)
    THEN << MainLine("stdout", "Warning", 0),
            MainLine("stdout", "Total moves required", TwoToThe(n) - 1) >>
    ELSE << >>

\* `if level > 6:` and its print, then the "Drawing ..." line
KochWarns(level) == level > KochWarnAbove
KochStartLines(level) ==
    (IF KochWarns(level) THEN << MainLine("stdout", "Warning", 0) >>
     ELSE << >>) \o << MainLine("stdout", "Drawing", level) >>

\* `if n < 1: raise ValueError` / `if level < 0: raise ValueError` of main
hanoi_main_invalid(n) == n < 1
koch_main_invalid(level) == level < 0

\* ----------------------------------------------------------------- state
VARIABLES
    call,      \* the public function called and its arguments
    towers,    \* the dict of peg lists (the caller's, or solve_hanoi's local)
    created,   \* a towers dict exists
    stack,     \* activations of hanoi_recursive, innermost last
    outcome,   \* "pending", "running", "returned", or the exception raised
    moves,     \* successful move_disk calls so far: <<source, destination, disk>>
    out,       \* lines printed so far
    retdisk    \* value returned by a direct move_disk call (0: none)

vars == <<call, towers, created, stack, outcome, moves, out, retdisk>>

VARIABLES
    kcall,     \* the function called and its arguments
    kstack,    \* activations of koch_curve, innermost last
    kdraw,     \* draw_koch_snowflake's loop: sides done and place reached
    koutcome,  \* "pending", "running", "returned", or the exception raised
    tcalls,    \* calls made on the screen and the turtle, in order
    theading,  \* the turtle's heading
    tpos       \* the turtle's position

kochvars == <<kcall, kstack, kdraw, koutcome, tcalls, theading, tpos>>

VARIABLES
    ccall,      \* the source tree and the destination before the first run
    dest,       \* the destination directory now
    cstack,     \* activations of process_directory_recursive, innermost last
    coutcome,   \* "pending", "running", "returned" or "OSError"
    copied,     \* the "Copied: ..." lines printed, in order
    cerr,       \* the lines printed on the error stream, in order
    run,        \* number of the current run
    dest_start, \* the destination when the current run began
    faults      \* filesystem operations that have failed

copiervars == <<ccall, dest, cstack, coutcome, copied, cerr, run, dest_start,
                faults>>

VARIABLES
    margs,     \* the program run, and the text given to it
    mpc,       \* main(): "start", "called" (solver or renderer), "exited"
    mprinted,  \* the lines main() itself has printed, in order
    mexit      \* the exit status of the process, NoExit while it runs

mainvars == <<margs, mpc, mprinted, mexit>>

\* the variables that the Hanoi steps leave alone
others == <<kochvars, copiervars, mainvars>>
\* the variables that the Koch steps leave alone
kothers == <<vars, copiervars, mainvars>>
\* the variables that the copier steps leave alone
cothers == <<vars, kochvars, mainvars>>

allvars == <<vars, kochvars, copiervars, mainvars>>

\* no Hanoi call is made
HanoiIdle ==
    /\ call = Call("-", 0, "-", "-", "-", EmptyTowers, FALSE)
    /\ towers = EmptyTowers
    /\ created = FALSE
    /\ stack = <<>>
    /\ outcome = "pending"
    /\ moves = <<>>
    /\ out = <<>>
    /\ retdisk = 0

\* no Koch call is made
KochIdle ==
    /\ kcall = KCall("-", RatZero, 0, 0)
    /\ kstack = <<>>
    /\ kdraw = [side |-> 0, pc |-> "-"]
    /\ koutcome = "pending"
    /\ tcalls = <<>>
    /\ theading = 0
    /\ tpos = Position(RatZero, RatZero, RatZero, RatZero)

\* no copier call is made
CopierIdle ==
    /\ ccall = CCall({}, Dest({}, {}))
    /\ dest = Dest({}, {})
    /\ cstack = <<>>
    /\ coutcome = "pending"
    /\ copied = <<>>
    /\ cerr = <<>>
    /\ run = 0
    /\ dest_start = Dest({}, {})
    /\ faults = 0

\* no program is run from the command line: the functions are called directly
MainIdle ==
    /\ margs = MainArgs("-", "-", << >>)
    /\ mpc = "-"
    /\ mprinted = << >>
    /\ mexit = NoExit

\* the calls made: each public function with every argument in the bounds
Init ==
    /\ MainIdle
    /\ \/ \E n \in Counts, b \in BOOLEAN :
            call = Call("solve_hanoi", n, "-", "-", "-", EmptyTowers, b)
       \/ \E n \in Counts :
            call = Call("initialize_towers", n, "-", "-", "-", EmptyTowers,
                        FALSE)
       \/ \E s \in Pegs, d \in Pegs, t \in MoveStates :
            call = Call("move_disk", 0, s, d, "-", t, FALSE)
       \/ \E n \in PegCounts, s \in Pegs, d \in Pegs, a \in Pegs,
             t \in HanoiStates, b \in BOOLEAN :
            call = Call("hanoi_recursive", n, s, d, a, t, b)
    /\ towers = call.towers
    /\ created = (call.fn \in {"move_disk", "hanoi_recursive"})
    /\ stack = <<>>
    /\ outcome = "pending"
    /\ moves = <<>>
    /\ out = <<>>
    /\ retdisk = 0
    /\ KochIdle
    /\ CopierIdle

\* an exception leaves every active frame: nothing in the module catches it
\* below main()
Raise(exc) ==
    /\ outcome' = exc
    /\ stack' = <<>>

\* ------------------------------------------------- direct calls (one step)
\* initialize_towers(n)
InitializeTowersCall ==
    /\ outcome = "pending"
    /\ call.fn = "initialize_towers"
    /\ IF initialize_towers_invalid(call.n)
       THEN /\ Raise("ValueError")
            /\ UNCHANGED <<towers, created>>
       ELSE /\ towers' = initialize_towers(call.n)
            /\ created' = TRUE
            /\ outcome' = "returned"
            /\ stack' = stack
    /\ UNCHANGED <<call, moves, out, retdisk>>
    /\ UNCHANGED others

\* move_disk(towers, source, destination)
MoveDiskCall ==
    /\ outcome = "pending"
    /\ call.fn = "move_disk"
    /\ IF move_disk_raises(towers, call.source, call.destination)
       THEN /\ Raise("ValueError")
            /\ UNCHANGED <<towers, moves, retdisk>>
       ELSE /\ towers' = move_disk(towers, call.source, call.destination)
            /\ retdisk' = Top(towers[call.source])
            /\ moves' = Append(moves, <<call.source, call.destination,
                                        Top(towers[call.source])>>)
            /\ outcome' = "returned"
            /\ stack' = stack
    /\ UNCHANGED <<call, created, out>>
    /\ UNCHANGED others

\* ------------------------------------------------------------ solve_hanoi
\* solve_hanoi up to its call of hanoi_recursive(n, 'A', 'C', 'B', ...)
SolveHanoiCall ==
    /\ outcome = "pending"
    /\ call.fn = "solve_hanoi"
    /\ IF solve_hanoi_invalid(call.n) \/ initialize_towers_invalid(call.n)
       THEN /\ Raise("ValueError")
            /\ UNCHANGED <<towers, created, out>>
       ELSE /\ towers' = initialize_towers(call.n)
            /\ created' = TRUE
            /\ out' = IF call.show_steps
                      THEN print_tower_state(towers', "Initial state:")
                      ELSE out
            /\ stack' = << Frame(call.n, "A", "C", "B", "enter") >>
            /\ outcome' = "running"
    /\ UNCHANGED <<call, moves, retdisk>>
    /\ UNCHANGED others

\* solve_hanoi after hanoi_recursive has returned
SolveHanoiReturn ==
    /\ outcome = "running"
    /\ call.fn = "solve_hanoi"
    /\ stack = <<>>
    /\ out' = IF call.show_steps
              THEN out \o print_tower_state(towers, "Final state:")
              ELSE out
    /\ outcome' = "returned"
    /\ UNCHANGED <<call, towers, created, stack, moves, retdisk>>
    /\ UNCHANGED others

\* -------------------------------------------------------- hanoi_recursive
\* a direct call hanoi_recursive(n, source, destination, auxiliary, towers)
HanoiRecursiveCall ==
    /\ outcome = "pending"
    /\ call.fn = "hanoi_recursive"
    /\ stack' = << Frame(call.n, call.source, call.destination,
                         call.auxiliary, "enter") >>
    /\ outcome' = "running"
    /\ UNCHANGED <<call, towers, created, moves, out, retdisk>>
    /\ UNCHANGED others

\* the direct call has returned to its caller
HanoiRecursiveDone ==
    /\ outcome = "running"
    /\ call.fn = "hanoi_recursive"
    /\ stack = <<>>
    /\ outcome' = "returned"
    /\ UNCHANGED <<call, towers, created, stack, moves, out, retdisk>>
    /\ UNCHANGED others

Running == outcome = "running" /\ stack # <<>>
TopFrame == stack[Len(stack)]
SetPc(pc) == [stack EXCEPT ![Len(stack)].pc = pc]

\* disk = move_disk(towers, source, destination) and the trace after it, in
\* the frame on top of the stack; the frame continues at `next`
MoveStep(next) ==
    LET f == TopFrame
    IN  IF move_disk_raises(towers, f.source, f.destination)
        THEN /\ Raise("ValueError")
             /\ UNCHANGED <<towers, moves, out>>
        ELSE /\ towers' = move_disk(towers, f.source, f.destination)
             /\ moves' = Append(moves, <<f.source, f.destination,
                                         Top(towers[f.source])>>)
             /\ out' = out \o StepTrace(call.show_steps, f.source,
                                        f.destination, Top(towers[f.source]),
                                        towers')
             /\ stack' = SetPc(next)
             /\ outcome' = outcome

\* a nested call: a new frame, or RecursionError at the depth limit
CallStep(frame, next) ==
    IF Len(stack) >= RecursionLimit
    THEN Raise("RecursionError")
    ELSE /\ stack' = Append(SetPc(next), frame)
         /\ outcome' = outcome

\* `if n == 1:` branch
HanoiBase ==
    /\ Running
    /\ TopFrame.pc = "enter"
    /\ BaseCase(TopFrame.n)
    /\ MoveStep("return")
    /\ UNCHANGED <<call, created, retdisk>>
    /\ UNCHANGED others

\* `else:` branch, first recursive call
HanoiFirstCall ==
    /\ Running
    /\ TopFrame.pc = "enter"
    /\ ~BaseCase(TopFrame.n)
    /\ CallStep(FirstCall(TopFrame), "move")
    /\ UNCHANGED <<call, towers, created, moves, out, retdisk>>
    /\ UNCHANGED others

\* `else:` branch, the move between the two recursive calls
HanoiMove ==
    /\ Running
    /\ TopFrame.pc = "move"
    /\ MoveStep("second")
    /\ UNCHANGED <<call, created, retdisk>>
    /\ UNCHANGED others

\* `else:` branch, second recursive call
HanoiSecondCall ==
    /\ Running
    /\ TopFrame.pc = "second"
    /\ CallStep(SecondCall(TopFrame), "return")
    /\ UNCHANGED <<call, towers, created, moves, out, retdisk>>
    /\ UNCHANGED others

\* the activation ends and control goes back to its caller
HanoiReturn ==
    /\ Running
    /\ TopFrame.pc = "return"
    /\ stack' = Pop(stack)
    /\ UNCHANGED <<call, towers, created, outcome, moves, out, retdisk>>
    /\ UNCHANGED others

Next ==
    \/ InitializeTowersCall
    \/ MoveDiskCall
    \/ SolveHanoiCall
    \/ SolveHanoiReturn
    \/ HanoiRecursiveCall
    \/ HanoiRecursiveDone
    \/ HanoiBase
    \/ HanoiFirstCall
    \/ HanoiMove
    \/ HanoiSecondCall
    \/ HanoiReturn

Spec == Init /\ [][Next]_allvars

\* ------------------------------------------------ solve_hanoi runs only
\* the calls solve_hanoi(n, show_steps) with every n in the bounds
SolveInit ==
    /\ MainIdle
    /\ \E n \in Counts, b \in BOOLEAN :
            call = Call("solve_hanoi", n, "-", "-", "-", EmptyTowers, b)
    /\ towers = call.towers
    /\ created = FALSE
    /\ stack = <<>>
    /\ outcome = "pending"
    /\ moves = <<>>
    /\ out = <<>>
    /\ retdisk = 0
    /\ KochIdle
    /\ CopierIdle

\* the steps of a solve_hanoi call
SolveNext ==
    \/ SolveHanoiCall
    \/ SolveHanoiReturn
    \/ HanoiBase
    \/ HanoiFirstCall
    \/ HanoiMove
    \/ HanoiSecondCall
    \/ HanoiReturn

\* the interpreter runs the one thread of the program without pause: a step
\* that can be taken is taken
SpecSolve == SolveInit /\ [][SolveNext]_allvars /\ WF_allvars(SolveNext)

KochInit ==
    /\ MainIdle
    /\ HanoiIdle
    /\ CopierIdle
    /\ \/ \E l \in KochLengths, v \in KochLevels, h \in Headings :
            kcall = KCall("koch_curve", l, v, h)
       \/ \E l \in KochLengths, v \in KochLevels :
            kcall = KCall("draw_koch_snowflake", l, v, 0)
    /\ kstack = <<>>
    /\ kdraw = [side |-> 0, pc |-> "-"]
    /\ koutcome = "pending"
    /\ tcalls = <<>>
    /\ theading = kcall.heading
    /\ tpos = Position(RatZero, RatZero, RatZero, RatZero)

KRaise(exc) ==
    /\ koutcome' = exc
    /\ kstack' = <<>>

\* koch_curve(t, length, level) called directly
KochCurveCall ==
    /\ koutcome = "pending"
    /\ kcall.fn = "koch_curve"
    /\ kstack' = << KFrame(kcall.length, kcall.level, "enter") >>
    /\ koutcome' = "running"
    /\ UNCHANGED <<kcall, kdraw, tcalls, theading, tpos>>
    /\ UNCHANGED kothers

\* the direct call has returned to its caller
KochCurveDone ==
    /\ koutcome = "running"
    /\ kcall.fn = "koch_curve"
    /\ kstack = <<>>
    /\ koutcome' = "returned"
    /\ UNCHANGED <<kcall, kstack, kdraw, tcalls, theading, tpos>>
    /\ UNCHANGED kothers

\* draw_koch_snowflake up to the loop: the checks, the window, the turtle
DrawCall ==
    /\ koutcome = "pending"
    /\ kcall.fn = "draw_koch_snowflake"
    /\ IF draw_invalid(kcall.length, kcall.level)
       THEN /\ KRaise("ValueError")
            /\ UNCHANGED <<kdraw, tcalls, tpos>>
       ELSE /\ tcalls' = DrawSetup(kcall.length, kcall.level)
            /\ tpos' = Position(Rat(0 - kcall.length.num,
                                    2 * kcall.length.den),
                                Rat(kcall.length.num, 3 * kcall.length.den),
                                RatZero, RatZero)
            /\ kdraw' = [side |-> 0, pc |-> "curve"]
            /\ koutcome' = "running"
            /\ kstack' = kstack
    /\ UNCHANGED <<kcall, theading>>
    /\ UNCHANGED kothers

DrawRunning ==
    /\ koutcome = "running"
    /\ kcall.fn = "draw_koch_snowflake"
    /\ kstack = <<>>

\* loop body, `koch_curve(t, length, level)`
DrawSide ==
    /\ DrawRunning
    /\ kdraw.pc = "curve"
    /\ kdraw.side < Sides
    /\ kstack' = << KFrame(kcall.length, kcall.level, "enter") >>
    /\ kdraw' = [kdraw EXCEPT !.pc = "turn"]
    /\ UNCHANGED <<kcall, koutcome, tcalls, theading, tpos>>
    /\ UNCHANGED kothers

\* loop body, `t.right(120)`
DrawTurn ==
    /\ DrawRunning
    /\ kdraw.pc = "turn"
    /\ tcalls' = Append(tcalls, SideTurn)
    /\ theading' = Turned(theading, SideTurn)
    /\ kdraw' = [side |-> kdraw.side + 1, pc |-> "curve"]
    /\ UNCHANGED <<kcall, kstack, koutcome, tpos>>
    /\ UNCHANGED kothers

\* after the loop: t.hideturtle(); window.mainloop()
DrawFinish ==
    /\ DrawRunning
    /\ kdraw.pc = "curve"
    /\ kdraw.side >= Sides
    /\ tcalls' = tcalls \o DrawFinishCalls
    /\ kdraw' = [kdraw EXCEPT !.pc = "done"]
    /\ koutcome' = "returned"
    /\ UNCHANGED <<kcall, kstack, theading, tpos>>
    /\ UNCHANGED kothers

KRunning == koutcome = "running" /\ kstack # <<>>
KTop == kstack[Len(kstack)]

\* a nested koch_curve call from the top frame, which goes on at `next` with
\* its length now `length`: a new frame, or RecursionError at the depth limit
KCallStep(length, next) ==
    IF Len(kstack) >= RecursionLimit
    THEN KRaise("RecursionError")
    ELSE /\ kstack' = Append([kstack EXCEPT ![Len(kstack)] =
                                 KFrame(length, KTop.level, next)],
                             KFrame(length, KTop.level - 1, "enter"))
         /\ koutcome' = koutcome

\* `if level == 0: t.forward(length)`
KochForward ==
    /\ KRunning
    /\ KTop.pc = "enter"
    /\ KTop.level = 0
    /\ tcalls' = Append(tcalls, Forward(KTop.length))
    /\ tpos' = Advance(tpos, theading, KTop.length)
    /\ kstack' = [kstack EXCEPT ![Len(kstack)].pc = "return"]
    /\ UNCHANGED <<kcall, kdraw, koutcome, theading>>
    /\ UNCHANGED kothers

\* `else: length /= 3.0; koch_curve(t, length, level - 1)`
KochFirst ==
    /\ KRunning
    /\ KTop.pc = "enter"
    /\ KTop.level # 0
    /\ KCallStep(DivideBy3(KTop.length), "left1")
    /\ UNCHANGED <<kcall, kdraw, tcalls, theading, tpos>>
    /\ UNCHANGED kothers

\* a turn and the koch_curve call after it, at place pc
TurnThenCall(pc) ==
    /\ KRunning
    /\ KTop.pc = pc
    /\ tcalls' = Append(tcalls, KochTurn(pc))
    /\ theading' = Turned(theading, KochTurn(pc))
    /\ KCallStep(KTop.length, KochAfter(pc))
    /\ UNCHANGED <<kcall, kdraw, tpos>>

\* `t.left(60); koch_curve(t, length, level - 1)`, first time
KochLeft1 == TurnThenCall("left1") /\ UNCHANGED kothers

\* `t.right(120); koch_curve(t, length, level - 1)`
KochRight == TurnThenCall("right") /\ UNCHANGED kothers

\* `t.left(60); koch_curve(t, length, level - 1)`, second time
KochLeft2 == TurnThenCall("left2") /\ UNCHANGED kothers

\* the activation ends and control goes back to its caller
KochReturn ==
    /\ KRunning
    /\ KTop.pc = "return"
    /\ kstack' = Pop(kstack)
    /\ UNCHANGED <<kcall, kdraw, koutcome, tcalls, theading, tpos>>
    /\ UNCHANGED kothers

KochNext ==
    \/ KochCurveCall
    \/ KochCurveDone
    \/ DrawCall
    \/ DrawSide
    \/ DrawTurn
    \/ DrawFinish
    \/ KochForward
    \/ KochFirst
    \/ KochLeft1
    \/ KochRight
    \/ KochLeft2
    \/ KochReturn

SpecKoch == KochInit /\ [][KochNext]_allvars

CopierInit ==
    /\ MainIdle
    /\ HanoiIdle
    /\ KochIdle
    /\ \E tree \in SourceTrees, d0 \in DestStates : ccall = CCall(tree, d0)
    /\ dest = ccall.dest
    /\ cstack = <<>>
    /\ coutcome = "pending"
    /\ copied = <<>>
    /\ cerr = <<>>
    /\ run = 0
    /\ dest_start = ccall.dest
    /\ faults = 0

\* an OSError raised in the top frame after the lines `first` were printed:
\* every frame prints its line and re-raises, and the caller gets the error
CRaise_mut(first) ==
    /\ cerr' = cerr \o first \o AccessErrors(<< cstack[Len(cstack)] >>)
    /\ cstack' = Pop(cstack)
    /\ coutcome' = coutcome
CRaise(first) ==
    /\ cerr' = cerr \o first \o AccessErrors(cstack)
    /\ cstack' = <<>>
    /\ coutcome' = "OSError"

\* process_directory_recursive(source_dir, destination_dir) is called, for
\* the first time or again after a run that returned
ProcessCall ==
    /\ coutcome \in {"pending", "returned"}
    /\ run < MaxRuns
    /\ run' = run + 1
    /\ dest_start' = dest
    /\ cstack' = << CFrame(<<>>, "list", {}) >>
    /\ coutcome' = "running"
    /\ UNCHANGED <<ccall, dest, copied, cerr, faults>>
    /\ UNCHANGED cothers

CRunning == coutcome = "running" /\ cstack # <<>>
CTop == cstack[Len(cstack)]

\* `for item in source_dir.iterdir():` reads the directory, or fails
ListDir ==
    /\ CRunning
    /\ CTop.pc = "list"
    /\ \E ok \in BOOLEAN :
          IF ok
          THEN /\ cstack' = [cstack EXCEPT ![Len(cstack)] =
                                CFrame(CTop.dir, "iter",
                                       Items(ccall.tree, CTop.dir))]
               /\ UNCHANGED <<coutcome, cerr, faults>>
          ELSE /\ CRaise(<<>>)
               /\ faults' = faults + 1
    /\ UNCHANGED <<ccall, dest, copied, run, dest_start>>
    /\ UNCHANGED cothers

\* the loop yields a file: copy_file_to_destination(item, destination_dir).
\* mkdir may fail; the copy may fail, leaving nothing or a partial file
VisitFile ==
    /\ CRunning
    /\ CTop.pc = "iter"
    /\ \E item \in CTop.todo, result \in {"ok", "mkdir", "copy", "partial"} :
          /\ item.kind = "file"
          /\ LET bucket   == get_file_extension(item.name)
                 made     == dest.dirs \cup {bucket}
                 destname == DestinationName(dest.files, bucket, item.name)
                 failed   == << ErrLine("Error copying file", item.dir,
                                        item.name) >>
             IN  CASE result = "ok" ->
                        /\ dest' = Dest(made,
                                        Copy2(dest.files, bucket, destname,
                                              Content(item.dir, item.name)))
                        /\ copied' = Append(copied,
                                            CopiedLine(item.dir, item.name,
                                                       bucket, destname))
                        /\ cstack' = [cstack EXCEPT ![Len(cstack)].todo =
                                         CTop.todo \ {item}]
                        /\ UNCHANGED <<coutcome, cerr, faults>>
                   [] result = "mkdir" ->
                        /\ CRaise(failed)
                        /\ faults' = faults + 1
                        /\ UNCHANGED <<dest, copied>>
                   [] result = "copy" ->
                        /\ CRaise(failed)
                        /\ faults' = faults + 1
                        /\ dest' = Dest(made, dest.files)
                        /\ UNCHANGED copied
                   [] result = "partial" ->
                        /\ CRaise(failed)
                        /\ faults' = faults + 1
                        /\ dest' = Dest(made,
                                        Copy2(dest.files, bucket, destname,
                                              PartialContent))
                        /\ UNCHANGED copied
    /\ UNCHANGED <<ccall, run, dest_start>>
    /\ UNCHANGED cothers

\* the loop yields a directory: process_directory_recursive(item, ...)
VisitDir ==
    /\ CRunning
    /\ CTop.pc = "iter"
    /\ \E item \in CTop.todo :
          /\ item.kind = "dir"
          /\ cstack' = Append([cstack EXCEPT ![Len(cstack)].todo =
                                  CTop.todo \ {item}],
                              CFrame(item.dir, "list", {}))
    /\ UNCHANGED <<ccall, dest, coutcome, copied, cerr, run, dest_start,
                   faults>>
    /\ UNCHANGED cothers

\* the loop is over: the activation returns to its caller
DirDone ==
    /\ CRunning
    /\ CTop.pc = "iter"
    /\ CTop.todo = {}
    /\ cstack' = Pop(cstack)
    /\ UNCHANGED <<ccall, dest, coutcome, copied, cerr, run, dest_start,
                   faults>>
    /\ UNCHANGED cothers

\* the outermost activation has returned
ProcessDone ==
    /\ coutcome = "running"
    /\ cstack = <<>>
    /\ coutcome' = "returned"
    /\ UNCHANGED <<ccall, dest, cstack, copied, cerr, run, dest_start,
                   faults>>
    /\ UNCHANGED cothers

CopierNext ==
    \/ ProcessCall
    \/ ListDir
    \/ VisitFile
    \/ VisitDir
    \/ DirDone
    \/ ProcessDone

SpecCopier == CopierInit /\ [][CopierNext]_allvars

\* ------------------------------------------------------------------ main()
Programs == {"hanoi_towers", "koch_snowflake"}

MainInit ==
    /\ HanoiIdle
    /\ KochIdle
    /\ CopierIdle
    /\ \/ \E prog \in Programs : \E text \in ArgTexts(prog) :
            margs = MainArgs(prog, "argv", text)
       \/ \E prog \in Programs : \E text \in ArgTexts(prog) \cup {EndOfInput} :
            margs = MainArgs(prog, "input", text)
    /\ mpc = "start"
    /\ mprinted = << >>
    /\ mexit = NoExit

\* input(prompt) writes the prompt when there is no command-line argument
PromptLines ==
    IF margs.from = "input" THEN << MainLine("stdout", "prompt", 0) >>
    ELSE << >>

\* an exception reaches main()'s handlers after `lines` were printed: the
\* handler prints its lines and calls sys.exit(1)
MainExits(lines, exc) ==
    /\ mprinted' = mprinted \o lines \o HandlerLines(exc)
    /\ mexit' = 1
    /\ mpc' = "exited"

\* main() returns: the interpreter exits with status 0
MainReturns ==
    /\ mprinted' = mprinted
    /\ mexit' = 0
    /\ mpc' = "exited"

\* hanoi_towers.main() up to its call solve_hanoi(n)
HanoiMainStart ==
    /\ mpc = "start"
    /\ margs.prog = "hanoi_towers"
    /\ IF margs.from = "input" /\ margs.text = EndOfInput
       THEN /\ MainExits(PromptLines, "EOFError")
            /\ UNCHANGED call
       ELSE IF ~IntValid(margs.text)
       THEN /\ MainExits(PromptLines, "ValueError")
            /\ UNCHANGED call
       ELSE IF hanoi_main_invalid(IntValue(margs.text))
       THEN /\ MainExits(PromptLines, "ValueError")
            /\ UNCHANGED call
       ELSE /\ mprinted' = mprinted \o PromptLines
                               \o HanoiWarningLines(IntValue(margs.text))
            /\ call' = Call("solve_hanoi", IntValue(margs.text), "-", "-",
                            "-", EmptyTowers, TRUE)
            /\ mpc' = "called"
            /\ mexit' = mexit
    /\ UNCHANGED <<margs, towers, created, stack, outcome, moves, out,
                   retdisk>>
    /\ UNCHANGED <<kochvars, copiervars>>

\* hanoi_towers.main() after solve_hanoi has returned or raised
HanoiMainExit ==
    /\ mpc = "called"
    /\ margs.prog = "hanoi_towers"
    /\ outcome \notin {"pending", "running"}
    /\ IF outcome = "returned" THEN MainReturns
       ELSE MainExits(<< >>, outcome)
    /\ UNCHANGED <<margs, vars, kochvars, copiervars>>

\* koch_snowflake.main() up to its call draw_koch_snowflake(level=level)
KochMainStart ==
    /\ mpc = "start"
    /\ margs.prog = "koch_snowflake"
    /\ IF margs.from = "input" /\ margs.text = EndOfInput
       THEN /\ MainExits(PromptLines, "EOFError")
            /\ UNCHANGED kcall
       ELSE IF ~IntValid(margs.text)
       THEN /\ MainExits(PromptLines, "ValueError")
            /\ UNCHANGED kcall
       ELSE IF koch_main_invalid(IntValue(margs.text))
       THEN /\ MainExits(PromptLines, "ValueError")
            /\ UNCHANGED kcall
       ELSE /\ mprinted' = mprinted \o PromptLines
                               \o KochStartLines(IntValue(margs.text))
            /\ kcall' = KCall("draw_koch_snowflake", Rat(DefaultLength, 1),
                              IntValue(margs.text), 0)
            /\ mpc' = "called"
            /\ mexit' = mexit
    /\ UNCHANGED <<margs, kstack, kdraw, koutcome, tcalls, theading, tpos>>
    /\ UNCHANGED <<vars, copiervars>>

\* koch_snowflake.main() after draw_koch_snowflake has returned or raised
KochMainExit ==
    /\ mpc = "called"
    /\ margs.prog = "koch_snowflake"
    /\ koutcome \notin {"pending", "running"}
    /\ IF koutcome = "returned" THEN MainReturns
       ELSE MainExits(<< >>, koutcome)
    /\ UNCHANGED <<margs, vars, kochvars, copiervars>>

MainNext ==
    \/ HanoiMainStart
    \/ HanoiMainExit
    \/ KochMainStart
    \/ KochMainExit
    \/ SolveHanoiCall
    \/ SolveHanoiReturn
    \/ HanoiBase
    \/ HanoiFirstCall
    \/ HanoiMove
    \/ HanoiSecondCall
    \/ HanoiReturn
    \/ DrawCall
    \/ DrawSide
    \/ DrawTurn
    \/ DrawFinish
    \/ KochForward
    \/ KochFirst
    \/ KochLeft1
    \/ KochRight
    \/ KochLeft2
    \/ KochReturn

SpecMain == MainInit /\ [][MainNext]_allvars

\* ---------------------------------------------------------------- claims
Errors == {"ValueError", "RecursionError"}

\* [n, n-1, ..., 1], bottom to top
Descending(n) == [i \in 1..n |-> n + 1 - i]

\* every peg strictly decreasing from bottom to top
StackingInvariant(t) ==
    \A p \in Pegs : \A i \in 1..(Len(t[p]) - 1) : t[p][i] > t[p][i + 1]

RECURSIVE Pow2(_)
Pow2(k) == IF k = 0 THEN 1 ELSE 2 * Pow2(k - 1)

IsPrefix(q, r) == Len(q) <= Len(r) /\ q = SubSeq(r, 1, Len(q))

SolveCall == call.fn = "solve_hanoi" /\ call.n >= 1

\* C1: for every n >= 1 solve_hanoi(n) raises nothing and returns the state
\* with pegs A and B empty and peg C holding n, n-1, ..., 1 bottom to top.
C1_SolveHanoiFinalState ==
    SolveCall =>
        /\ outcome \notin Errors
        /\ outcome = "returned" =>
              /\ created
              /\ towers["A"] = <<>>
              /\ towers["B"] = <<>>
              /\ towers["C"] = Descending(call.n)

C1_Witness ==
    /\ call.fn = "solve_hanoi"
    /\ call.n >= 3
    /\ outcome = "returned"
    /\ towers["C"] = Descending(call.n)

\* the runs C2 speaks of: solve_hanoi(n), or hanoi_recursive(n, 'A', 'C',
\* 'B', initialize_towers(n)), with n >= 1
TransferRun ==
    \/ SolveCall
    \/ /\ call.fn = "hanoi_recursive"
       /\ call.n >= 1
       /\ <<call.source, call.destination, call.auxiliary>> = <<"A", "C", "B">>
       /\ call.towers = [p \in Pegs |-> IF p = "A" THEN Descending(call.n)
                                        ELSE <<>>]

\* C2: such a run makes exactly 2^n - 1 successful move_disk calls: never
\* more than that while it runs, and exactly that many when it has returned.
C2_MoveCountExact ==
    TransferRun =>
        /\ outcome \notin Errors
        /\ Len(moves) <= Pow2(call.n) - 1
        /\ outcome = "returned" => Len(moves) = Pow2(call.n) - 1

C2_Witness ==
    /\ TransferRun
    /\ call.n >= 3
    /\ outcome = "returned"
    /\ Len(moves) = Pow2(call.n) - 1

\* C3: in every state of a solve_hanoi(n) run, n >= 1, in which the towers
\* exist (initial, after each move, final) every peg is strictly decreasing
\* from bottom to top.
C3_StackingInvariantDuringSolve ==
    (SolveCall /\ created) => StackingInvariant(towers)

C3_Witness ==
    /\ SolveCall
    /\ outcome = "running"
    /\ \A p \in Pegs : towers[p] # <<>>
    /\ \E p \in Pegs : Len(towers[p]) >= 2

\* the two failure cases of C4, on the state handed to move_disk
EmptySourceCase == call.towers[call.source] = <<>>
LargerOnSmallerCase ==
    /\ call.towers[call.source] # <<>>
    /\ call.towers[call.destination] # <<>>
    /\ call.towers[call.source][Len(call.towers[call.source])]
         > call.towers[call.destination][Len(call.towers[call.destination])]

MoveDiskDone == call.fn = "move_disk" /\ outcome # "pending"

\* C4: move_disk raises when the source peg is empty or the source's top
\* disk is larger than the destination's top disk, and then the three peg
\* sequences are what they were before the call.
C4_MoveDiskFailsUnchanged ==
    (MoveDiskDone /\ (EmptySourceCase \/ LargerOnSmallerCase)) =>
        /\ outcome = "ValueError"
        /\ towers = call.towers
        /\ moves = <<>>

C4_Witness ==
    /\ MoveDiskDone
    /\ LargerOnSmallerCase
    /\ call.source # call.destination
    /\ outcome = "ValueError"

\* C5: with a non-empty source, move_disk succeeds only when the destination
\* is empty or its top disk is strictly larger than the source's top disk,
\* and fails with ValueError in every other case (tops of equal size, source
\* and destination the same peg).
C5_MoveOnlyOntoStrictlyLarger ==
    (MoveDiskDone /\ ~EmptySourceCase) =>
        LET src == call.towers[call.source]
            dst == call.towers[call.destination]
            allowed == dst = <<>> \/ dst[Len(dst)] > src[Len(src)]
        IN  /\ outcome = "returned" => allowed
            /\ ~allowed => outcome = "ValueError"

\* C6: a successful move_disk with source # destination removes exactly the
\* last element of the source, appends that disk to the destination, returns
\* it, and leaves the third peg and all other elements unchanged.
C6_MoveDiskEffect ==
    (MoveDiskDone /\ outcome = "returned"
        /\ call.source # call.destination) =>
        LET src  == call.towers[call.source]
            dst  == call.towers[call.destination]
            disk == src[Len(src)]
        IN  /\ retdisk = disk
            /\ Len(towers[call.source]) = Len(src) - 1
            /\ \A i \in 1..(Len(src) - 1) : towers[call.source][i] = src[i]
            /\ Len(towers[call.destination]) = Len(dst) + 1
            /\ \A i \in 1..Len(dst) : towers[call.destination][i] = dst[i]
            /\ towers[call.destination][Len(dst) + 1] = disk
            /\ \A p \in Pegs \ {call.source, call.destination} :
                  towers[p] = call.towers[p]

C6_Witness ==
    /\ MoveDiskDone
    /\ outcome = "returned"
    /\ call.source # call.destination
    /\ Len(call.towers[call.source]) = 2
    /\ call.towers[call.destination] # <<>>
    /\ \E p \in Pegs \ {call.source, call.destination} : call.towers[p] # <<>>

\* the precondition of C7 on the arguments of a direct hanoi_recursive call:
\* three different pegs, the stacking invariant, at least k disks on s, and
\* the top k of them smaller than every disk on d and a
TransferPre ==
    LET t == call.towers
        s == call.source
        k == call.n
    IN  /\ call.fn = "hanoi_recursive"
        /\ k >= 1
        /\ Cardinality({s, call.destination, call.auxiliary}) = 3
        /\ StackingInvariant(t)
        /\ Len(t[s]) >= k
        /\ \A i \in (Len(t[s]) - k + 1)..Len(t[s]) :
              \A p \in {call.destination, call.auxiliary} :
                 \A j \in 1..Len(t[p]) : t[s][i] < t[p][j]

\* C7: under that precondition hanoi_recursive raises nothing, keeps the
\* stacking invariant after every move, and returns with exactly the top k
\* disks of s moved, in the same order, onto the top of d, everything else
\* in place.
C7_TransferContract ==
    TransferPre =>
        LET t == call.towers
            s == call.source
            k == call.n
            h == Len(t[s])
        IN  /\ outcome \notin Errors
            /\ StackingInvariant(towers)
            /\ outcome = "returned" =>
                  /\ towers[s] = SubSeq(t[s], 1, h - k)
                  /\ towers[call.destination] =
                        t[call.destination] \o SubSeq(t[s], h - k + 1, h)
                  /\ towers[call.auxiliary] = t[call.auxiliary]

C7_Witness ==
    /\ TransferPre
    /\ call.n = 2
    /\ Len(call.towers[call.source]) = 3
    /\ outcome = "returned"
    /\ Len(towers[call.destination]) = 2

\* the move sequence M of C8, each move with the disk it carries
RECURSIVE M(_, _, _, _)
M(k, s, d, a) ==
    IF k = 1 THEN << <<s, d, 1>> >>
    ELSE M(k - 1, s, a, d) \o << <<s, d, k>> >> \o M(k - 1, a, d, s)

\* C8: the moves issued by solve_hanoi(n) are, in order, exactly
\* M(n, A, C, B); n = 1 gives A->C(1), n = 2 gives A->B(1), A->C(2), B->C(1),
\* and n = 3 starts with A->C(1), A->B(2).
C8_MoveSequence ==
    SolveCall =>
        /\ IsPrefix(moves, M(call.n, "A", "C", "B"))
        /\ outcome = "returned" =>
              /\ moves = M(call.n, "A", "C", "B")
              /\ call.n = 1 => moves = << <<"A", "C", 1>> >>
              /\ call.n = 2 => moves = << <<"A", "B", 1>>, <<"A", "C", 2>>,
                                          <<"B", "C", 1>> >>
              /\ call.n = 3 => SubSeq(moves, 1, 2) =
                                  << <<"A", "C", 1>>, <<"A", "B", 2>> >>

C8_Witness ==
    /\ SolveCall
    /\ call.n = 3
    /\ outcome = "returned"
    /\ Len(moves) = 7
    /\ moves[1] = <<"A", "C", 1>>
    /\ moves[2] = <<"A", "B", 2>>

\* C9: solve_hanoi(n) and initialize_towers(n) with n < 1 raise ValueError
\* without creating a tower state, making a move or printing anything.
C9_InvalidCountRejected ==
    (call.fn \in {"solve_hanoi", "initialize_towers"} /\ call.n < 1
        /\ outcome # "pending") =>
        /\ outcome = "ValueError"
        /\ ~created
        /\ moves = <<>>
        /\ out = <<>>

C9_Witness ==
    /\ call.fn = "solve_hanoi"
    /\ call.n = 0
    /\ call.show_steps
    /\ outcome = "ValueError"
    /\ ~created

\* C10: hanoi_recursive called directly with count < 1 ends with an
\* invalid-input error (ValueError), having made no move and left the
\* towers unchanged.
C10_TransferRejectsInvalidCount ==
    (call.fn = "hanoi_recursive" /\ call.n < 1
        /\ outcome \notin {"pending", "running"}) =>
        /\ outcome = "ValueError"
        /\ moves = <<>>
        /\ towers = call.towers

\* the peg state after the first k moves of ms, starting from t
RECURSIVE AfterMoves(_, _, _)
AfterMoves(t, ms, k) ==
    IF k = 0 THEN t
    ELSE LET prev == AfterMoves(t, ms, k - 1)
             s    == ms[k][1]
             d    == ms[k][2]
             less == [prev EXCEPT ![s] = SubSeq(prev[s], 1, Len(prev[s]) - 1)]
         IN  [less EXCEPT ![d] = Append(less[d], ms[k][3])]

StartTowers(n) == [p \in Pegs |-> IF p = "A" THEN Descending(n) ELSE <<>>]

\* the trace printed for the first k moves of ms
RECURSIVE MovesTrace(_, _, _)
MovesTrace(t, ms, k) ==
    IF k = 0 THEN << >>
    ELSE MovesTrace(t, ms, k - 1)
         \o << Line("Move disk", ms[k][1], ms[k][2], ms[k][3], EmptyTowers),
               Line("Intermediate state:", "-", "-", 0, EmptyTowers),
               Line("towers", "-", "-", 0, AfterMoves(t, ms, k)) >>

\* C11: the moves, the peg state after each move and the returned state of
\* solve_hanoi(n), n >= 1, are given by n alone, the same whether show_steps
\* is True or False; the flag decides only the printing: nothing is printed
\* when it is False, and the full trace of those same moves when it is True.
C11_ShowStepsOnlyPrints ==
    (SolveCall /\ created) =>
        LET full  == M(call.n, "A", "C", "B")
            start == StartTowers(call.n)
        IN  /\ IsPrefix(moves, full)
            /\ towers = AfterMoves(start, full, Len(moves))
            /\ outcome = "returned" => moves = full
            /\ ~call.show_steps => out = << >>
            /\ call.show_steps =>
                  out = << Line("Initial state:", "-", "-", 0, EmptyTowers),
                           Line("towers", "-", "-", 0, start) >>
                        \o MovesTrace(start, full, Len(moves))
                        \o (IF outcome = "returned"
                            THEN << Line("Final state:", "-", "-", 0,
                                         EmptyTowers),
                                    Line("towers", "-", "-", 0, towers) >>
                            ELSE << >>)

C11_Witness ==
    /\ SolveCall
    /\ call.n >= 2
    /\ ~call.show_steps
    /\ outcome = "returned"
    /\ Len(moves) = Pow2(call.n) - 1
    /\ out = << >>

\* ----------------------------------------------------------- Koch claims
RECURSIVE Pow(_, _)
Pow(b, e) == IF e = 0 THEN 1 ELSE b * Pow(b, e - 1)

IsForward(c) == c.op = "forward"
IsTurn(c) == c.op \in {"left", "right"}
Forwards == SelectSeq(tcalls, IsForward)
Drawn == SelectSeq(tcalls, LAMBDA c : IsForward(c) \/ IsTurn(c))

\* the fraction r equals length / 3^depth
IsScaled(r, length, depth) ==
    r.num * Pow(3, depth) * length.den = length.num * r.den

CurveCall == kcall.fn = "koch_curve" /\ kcall.level >= 0

\* C12: for depth >= 0 and length > 0, koch_curve makes exactly 4^depth
\* forward calls, each with argument length / 3^depth; at depth 0 that is
\* one forward(length) and no turn.
C12_ForwardCountAndLength ==
    (CurveCall /\ kcall.length.num > 0) =>
        /\ koutcome \notin Errors
        /\ \A i \in 1..Len(Forwards) :
              IsScaled(Forwards[i].x, kcall.length, kcall.level)
        /\ Len(Forwards) <= Pow(4, kcall.level)
        /\ koutcome = "returned" =>
              /\ Len(Forwards) = Pow(4, kcall.level)
              /\ kcall.level = 0 =>
                    tcalls = << [op |-> "forward", x |-> kcall.length,
                                 y |-> RatZero] >>

C12_Witness ==
    /\ CurveCall
    /\ kcall.length.num > 1
    /\ kcall.level >= 2
    /\ koutcome = "returned"
    /\ Len(Forwards) = Pow(4, kcall.level)

L60 == [op |-> "left", x |-> Rat(60, 1), y |-> RatZero]
R120 == [op |-> "right", x |-> Rat(120, 1), y |-> RatZero]

\* the calls of one curve: at each level sub-curve, left 60, sub-curve,
\* right 120, sub-curve, left 60, sub-curve, on a third of the length
RECURSIVE KochCalls(_, _)
KochCalls(length, depth) ==
    IF depth = 0
    THEN << [op |-> "forward", x |-> length, y |-> RatZero] >>
    ELSE LET sub == KochCalls(Rat(length.num, 3 * length.den), depth - 1)
         IN  sub \o <<L60>> \o sub \o <<R120>> \o sub \o <<L60>> \o sub

\* the sum of the turns of a log, left counted positive
RECURSIVE SignedTurn(_)
SignedTurn(log) ==
    IF log = << >> THEN 0
    ELSE LET c == log[Len(log)]
             rest == SignedTurn(SubSeq(log, 1, Len(log) - 1))
         IN  IF c.op = "left" THEN rest + c.x.num
             ELSE IF c.op = "right" THEN rest - c.x.num
             ELSE rest

\* C13: for depth >= 0 the turns of a koch_curve call are only left(60) and
\* right(120), issued at each level in the order sub-curve, left 60,
\* sub-curve, right 120, sub-curve, left 60, sub-curve; they sum to 0 and
\* the heading after the call is the heading before it.
C13_TurnsAndHeading ==
    CurveCall =>
        /\ \A i \in 1..Len(tcalls) :
              IsTurn(tcalls[i]) => tcalls[i] \in {L60, R120}
        /\ IsPrefix(tcalls, KochCalls(kcall.length, kcall.level))
        /\ koutcome = "returned" =>
              /\ tcalls = KochCalls(kcall.length, kcall.level)
              /\ SignedTurn(tcalls) = 0
              /\ theading = kcall.heading

C13_Witness ==
    /\ CurveCall
    /\ kcall.level >= 2
    /\ kcall.heading = 120
    /\ koutcome = "returned"
    /\ SignedTurn(tcalls) = 0
    /\ theading = 120

DrawValid ==
    /\ kcall.fn = "draw_koch_snowflake"
    /\ kcall.level >= 0
    /\ kcall.length.num > 0

\* the turtle is where the goto put it, heading as a new turtle does
AtStart ==
    /\ tpos.x = Rat(0 - kcall.length.num, 2 * kcall.length.den)
    /\ tpos.y = Rat(kcall.length.num, 3 * kcall.length.den)
    /\ tpos.a.num = 0
    /\ tpos.b.num = 0
    /\ theading = 0

\* C14: for depth >= 0 and length > 0, draw_koch_snowflake traces exactly
\* three koch_curve(length, depth) curves, each followed by right(120), with
\* 3 * 4^depth forward segments, and after the third curve and turn the
\* turtle is back at its starting position with its starting heading.
C14_SnowflakeClosed ==
    DrawValid =>
        LET curve == KochCalls(kcall.length, kcall.level) \o <<R120>>
        IN  /\ koutcome \notin Errors
            /\ IsPrefix(Drawn, curve \o curve \o curve)
            /\ (kdraw.side = 3 /\ kdraw.pc \in {"curve", "done"}) =>
                  /\ Drawn = curve \o curve \o curve
                  /\ Len(Forwards) = 3 * Pow(4, kcall.level)
                  /\ AtStart
            /\ koutcome = "returned" => kdraw.side = 3

C14_Witness ==
    /\ DrawValid
    /\ kcall.level >= 2
    /\ koutcome = "returned"
    /\ Len(Forwards) = 3 * Pow(4, kcall.level)
    /\ AtStart

DrawRejected ==
    /\ kcall.fn = "draw_koch_snowflake"
    /\ kcall.level < 0 \/ kcall.length.num <= 0

\* C15: draw_koch_snowflake with level < 0 or length <= 0 raises ValueError
\* before any drawing: no screen or turtle is created and no forward, turn
\* or goto call is made.
C15_DrawRejectsInvalid ==
    (DrawRejected /\ koutcome # "pending") =>
        /\ koutcome = "ValueError"
        /\ tcalls = << >>
        /\ kstack = << >>

C15_Witness ==
    /\ DrawRejected
    /\ kcall.level >= 0
    /\ kcall.length.num = 0
    /\ koutcome = "ValueError"
    /\ tcalls = << >>

\* C16: koch_curve called directly with level < 0 or length <= 0 ends with
\* an invalid-input error (ValueError), having made no forward, left or
\* right call on the turtle.
C16_CurveRejectsInvalid ==
    (kcall.fn = "koch_curve"
        /\ (kcall.level < 0 \/ kcall.length.num <= 0)
        /\ koutcome \notin {"pending", "running"}) =>
        /\ koutcome = "ValueError"
        /\ tcalls = << >>

\* --------------------------------------------------------- copier claims
\* the index of the last dot of a name, 0 when it has none
LastDot(name) ==
    IF \E i \in 1..Len(name) : name[i] = "."
    THEN CHOOSE i \in 1..Len(name) :
            /\ name[i] = "."
            /\ \A j \in (i + 1)..Len(name) : name[j] # "."
    ELSE 0

\* the bucket C17 gives a name: what follows its last dot, lower-cased, or
\* no_extension when it has no dot, only a leading dot, or nothing after
\* the dot
BucketOf(name) ==
    LET i == LastDot(name)
    IN  IF i <= 1 \/ i = Len(name) THEN << "no_extension" >>
        ELSE [k \in 1..(Len(name) - i) |->
                 CASE name[i + k] = "T" -> "t"
                   [] name[i + k] = "A" -> "a"
                   [] OTHER -> name[i + k]]

\* C17: when process_directory_recursive has returned without error, every
\* file of the source tree, at any depth, has a copy with its content
\* directly inside dest/<bucket>, bucket being its last extension
\* lower-cased or no_extension; no directory other than those buckets is
\* made under dest.
C17_EveryFileBucketed ==
    (coutcome = "returned" /\ faults = 0) =>
        /\ \A f \in ccall.tree :
              \E g \in dest.files :
                 /\ g.bucket = BucketOf(f.name)
                 /\ g.content = << f.dir, f.name >>
        /\ \A g \in dest.files : g.bucket \in dest.dirs
        /\ dest.dirs = ccall.dest.dirs \cup {BucketOf(f.name) : f \in ccall.tree}

C17_Witness ==
    /\ coutcome = "returned"
    /\ faults = 0
    /\ \E f \in ccall.tree : f.dir = <<"d", "e">> /\ f.name = <<"a", ".", "b", ".", "T">>
    /\ \E f \in ccall.tree : f.name = <<".", "g">>
    /\ \E g \in dest.files : g.bucket = <<"t">> /\ g.content = << <<"d", "e">>, <<"a", ".", "b", ".", "T">> >>
    /\ \E g \in dest.files : g.bucket = << "no_extension" >>

\* <stem>_k<suffix> for a name, written out from the claim
Numbered(name, k) ==
    LET i    == LastDot(name)
        cut  == IF i <= 1 \/ i = Len(name) THEN Len(name) ELSE i - 1
    IN  SubSeq(name, 1, cut) \o << "_" >> \o Str(k)
            \o SubSeq(name, cut + 1, Len(name))

Taken(files, bucket, name) ==
    \E g \in files : g.bucket = bucket /\ g.name = name

\* a step in which a file was copied (a "Copied:" line was printed)
CopyStep == Len(copied') = Len(copied) + 1

\* C18: a copy never overwrites or alters a file already in the bucket: it
\* writes to <name> when that is unused and otherwise to <stem>_k<suffix>
\* for the smallest k >= 1 whose name is unused, and every file that was in
\* the destination before is still there with its content.
C18_NeverOverwrites ==
    [][ /\ \A g \in dest.files : g \in dest'.files
        /\ CopyStep =>
              LET c == copied'[Len(copied')]
                  b == c.bucket
              IN  /\ ~Taken(dest.files, b, c.destname)
                  /\ [bucket |-> b, name |-> c.destname,
                      content |-> << c.dir, c.name >>] \in dest'.files
                  /\ IF ~Taken(dest.files, b, c.name)
                     THEN c.destname = c.name
                     ELSE \E k \in 1..(Cardinality(dest.files) + 1) :
                             /\ c.destname = Numbered(c.name, k)
                             /\ \A j \in 1..(k - 1) :
                                   Taken(dest.files, b, Numbered(c.name, j))
      ]_allvars

\* a copy has gone to a_3.t: a.t, a_1.t and a_2.t were all taken
C18_Witness ==
    /\ copied # <<>>
    /\ copied[Len(copied)].destname = <<"a", "_", "3", ".", "t">>
    /\ \E g \in dest.files : g.name = <<"a", ".", "t">> /\ g.content = << <<"old">>, <<>> >>

FilesIn(files, b) == {g \in files : g.bucket = b}
MappedTo(b) == {f \in ccall.tree : BucketOf(f.name) = b}
Buckets == dest.dirs \cup {BucketOf(f.name) : f \in ccall.tree}

\* C19: each run that returns adds to every bucket as many files as the
\* source has files for that bucket, whatever the bucket held; so a second
\* run on a destination that started empty leaves each bucket with twice
\* the files it had after the first.
C19_EachRunAddsOnePerFile ==
    (coutcome = "returned" /\ faults = 0) =>
        /\ \A b \in Buckets :
              Cardinality(FilesIn(dest.files, b)) =
                 Cardinality(FilesIn(dest_start.files, b))
                    + Cardinality(MappedTo(b))
        /\ (run = 2 /\ ccall.dest.files = {}) =>
              \A b \in Buckets :
                 Cardinality(FilesIn(dest.files, b)) =
                    2 * Cardinality(FilesIn(dest_start.files, b))

C19_Witness ==
    /\ coutcome = "returned"
    /\ faults = 0
    /\ run = 2
    /\ ccall.dest.files = {}
    /\ Cardinality(FilesIn(dest.files, <<"t">>)) = 4

\* the directories from dir up to the source directory, innermost first
RECURSIVE UpFrom(_)
UpFrom(dir) ==
    IF dir = <<>> THEN << <<>> >>
    ELSE << dir >> \o UpFrom(SubSeq(dir, 1, Len(dir) - 1))

AccessLines == SelectSeq(cerr, LAMBDA e : e.kind = "Error accessing directory")

\* C20: once a filesystem operation has failed, the traversal has stopped
\* with OSError handed to the caller through every recursion level (each
\* level, from the failing directory up to the source directory, has
\* reported it), nothing is copied afterwards, and every file copied before
\* is still in the destination.
C20_FailureStopsTraversal ==
    [][ faults' > 0 =>
          /\ coutcome' = "OSError"
          /\ cstack' = <<>>
          /\ \E d \in SourceDirs :
                AccessLines' = [i \in 1..Len(UpFrom(d)) |->
                                   [kind |-> "Error accessing directory",
                                    dir |-> UpFrom(d)[i], name |-> <<>>]]
          /\ \A i \in 1..Len(copied') :
                [bucket |-> copied'[i].bucket, name |-> copied'[i].destname,
                 content |-> << copied'[i].dir, copied'[i].name >>]
                    \in dest'.files
          /\ faults > 0 => UNCHANGED <<dest, copied>>
          /\ copied' = copied
      ]_allvars

\* a copy failed two levels down after another file had been copied
C20_Witness ==
    /\ coutcome = "OSError"
    /\ faults = 1
    /\ Len(copied) >= 1
    /\ Len(AccessLines) = 3
    /\ \E e \in {cerr[i] : i \in 1..Len(cerr)} : e.kind = "Error copying file"

\* peg C holds every disk 1..n
AllOnC ==
    /\ Len(towers["C"]) = call.n
    /\ Range(towers["C"]) = 1..call.n

\* C22: for every n >= 1 solve_hanoi(n) terminates, and it stops exactly
\* when the transfer is complete: the run returns, on return peg C holds
\* n..1, the state with all disks on peg C is entered by a move (so no
\* earlier state has it) and once it is entered no further move is made.
C22_StopsWhenTransferred ==
    /\ SolveCall ~> (outcome = "returned")
    /\ [](SolveCall /\ outcome = "returned" =>
             towers["C"] = Descending(call.n))
    /\ [][ SolveCall =>
             /\ (~AllOnC /\ AllOnC') => Len(moves') = Len(moves) + 1
             /\ AllOnC => (moves' = moves /\ towers' = towers /\ AllOnC')
         ]_allvars

C22_Witness ==
    /\ SolveCall
    /\ call.n >= 3
    /\ outcome = "returned"
    /\ AllOnC
    /\ moves[Len(moves)] = <<"A", "C", 1>>

\* the peg that holds disk d
PegOf(t, d) == CHOOSE p \in Pegs : d \in Range(t[p])

\* the disks that are on another peg after the step
ChangedPeg ==
    {d \in 1..call.n : PegOf(towers', d) # PegOf(towers, d)}

\* each disk 1..n is on the pegs exactly once
EachDiskOnce(t, n) ==
    /\ Len(t["A"]) + Len(t["B"]) + Len(t["C"]) = n
    /\ Range(t["A"]) \cup Range(t["B"]) \cup Range(t["C"]) = 1..n

\* C23: in every state of a solve_hanoi(n) run in which the towers exist,
\* the three pegs together hold each disk 1..n exactly once, and each state
\* differs from the one before it by exactly one disk having changed peg:
\* the towers change only by a move, and a move changes the peg of one disk.
C23_DisksConserved ==
    /\ [](SolveCall /\ created => EachDiskOnce(towers, call.n))
    /\ [][ (SolveCall /\ created) =>
             /\ towers' # towers => Len(moves') = Len(moves) + 1
             /\ moves' # moves => Cardinality(ChangedPeg) = 1
         ]_allvars

C23_Witness ==
    /\ SolveCall
    /\ call.n >= 3
    /\ outcome = "running"
    /\ Len(moves) >= 3
    /\ \A p \in Pegs : towers[p] # <<>>

\* the spellings of the integer v among the texts tried
Spellings(v) ==
    {IntText(v)}
        \cup (IF v >= 0
              THEN { << " " >> \o Str(v) \o << " " >>, << "+" >> \o Str(v),
                     << "0" >> \o Str(v), << "0", "_" >> \o Str(v) }
              ELSE {})
        \cup (IF v = 0 THEN { << "-", "0" >> } ELSE {})

ArgRange == (0 - MaxNegative)..(HanoiWarnAbove + RecursionLimit + 1)

\* the argument text is an integer, and the integer it is
ArgIsInteger == \E v \in ArgRange : margs.text \in Spellings(v)
ArgValue == CHOOSE v \in ArgRange : margs.text \in Spellings(v)

IsHanoi == margs.prog = "hanoi_towers"
IsKoch == margs.prog = "koch_snowflake"

\* the numeric argument is not an integer, or is out of range
ArgRejected ==
    /\ margs.text # EndOfInput
    /\ \/ ~ArgIsInteger
       \/ IsHanoi /\ ArgValue < 1
       \/ IsKoch /\ ArgValue < 0

\* a valid argument above the warning threshold
ArgLarge ==
    /\ ArgIsInteger
    /\ \/ IsHanoi /\ ArgValue > 10
       \/ IsKoch /\ ArgValue > 6

Warned == \E i \in 1..Len(mprinted) : mprinted[i].kind = "Warning"

\* the solver or the renderer was entered with value v
RanWith(v) ==
    \/ /\ IsHanoi
       /\ call.fn = "solve_hanoi"
       /\ call.n = v
       /\ mpc = "exited" => (created /\ out # << >>)
    \/ /\ IsKoch
       /\ kcall.fn = "draw_koch_snowflake"
       /\ kcall.level = v
       /\ mpc = "exited" => tcalls # << >>

\* an exception other than the rejection of the argument was raised
OtherException ==
    \/ margs.from = "input" /\ margs.text = EndOfInput
    \/ outcome \in Errors
    \/ koutcome \in Errors

====
